---- MODULE Spec2Model ----
(***************************************************************************)
(* A model of the poverty-mapping pipeline of malpolon_poverty:            *)
(*   - PovertyDataModule / MSDataset  (examples/poverty/datamodule)        *)
(*   - the training entry point        (examples/poverty/cnn_on_ms_poverty)*)
(*   - CrashHandler and check_metric   (malpolon/models/utils)             *)
(*   - swap_observation_columns_csv    (examples/poverty/cnn_on_ms_poverty)*)
(* Each subsystem has its own specification over the shared variables; the *)
(* variables of the other subsystems stay at their idle values.            *)
(***************************************************************************)
EXTENDS Integers, Sequences, FiniteSets, TLC

VARIABLES
    dataframe,      \* PovertyDataModule.dataframe / MSDataset.dataframe: the rows
    datamodule,     \* the PovertyDataModule object of the current fold
    main_fold,      \* main(): the loop variable of `for fold in range(5)`
    root_dir,       \* MSDataset.root_dir
    files,          \* the tile files on disk, by tile name
    workers,        \* the DataLoader workers, each inside MSDataset.__getitem__
    first_result,   \* per index, the first result __getitem__ returned for it
    trainer,        \* the pl.Trainer the CrashHandler holds: log_dir, global_step
    crash,          \* the CrashHandler object and the SIGINT disposition
    frames,         \* the signal_handler invocations running, innermost last
    events,         \* what the handlers did, in order: <<depth, event>>
    ckpt_files,     \* the checkpoint files on disk, by path
    process,        \* the Python process: running, or exited with a code
    metrics_arg,    \* check_metric: the `metrics` argument as passed
    metrics,        \* check_metric: the local `metrics` (the container being filled)
    metric_pc,      \* check_metric: "start", "loop" or "done"
    metric_i,       \* check_metric: the position of the loop in metrics.items()
    metric_out,     \* check_metric: what was printed, and the return or the raise
    csv_files,      \* the CSV files on disk, by path
    csv_call,       \* swap_observation_columns_csv: the last call and how it ended
    reprojected     \* the paths whose file swap_observation_columns_csv wrote

split_vars == <<dataframe, datamodule, main_fold>>
tile_vars == <<root_dir, files, workers, first_result>>
crash_vars == <<trainer, crash, frames, events, ckpt_files, process>>
metric_vars == <<metrics_arg, metrics, metric_pc, metric_i, metric_out>>
csv_vars == <<csv_files, csv_call, reprojected>>

vars == <<dataframe, datamodule, main_fold, root_dir, files, workers, first_result,
          trainer, crash, frames, events, ckpt_files, process,
          metrics_arg, metrics, metric_pc, metric_i, metric_out,
          csv_files, csv_call, reprojected>>

----------------------------------------------------------------------------
(* Bounds of the model.                                                    *)

\* Largest number of rows of the observation table.
MaxRecords == 4

\* Number of folds main() trains: `for fold in range(5)`.
NumFolds == 5

----------------------------------------------------------------------------
(* Helpers.                                                                *)

Range(s) == {s[i] : i \in DOMAIN s}

NoDuplicates(s) == \A i, j \in DOMAIN s : i # j => s[i] # s[j]

----------------------------------------------------------------------------
(* The values the variables of a subsystem keep while another one runs.    *)

\* The keyword arguments a caller passes beyond the named ones.
NoKwargs == <<>>

\* No data module built yet.
NoModule ==
    [built |-> FALSE, val_split |-> [lit |-> "0.0", hi |-> 0, lo |-> 0, exp |-> 0],
     kwargs |-> NoKwargs,
     is_setup |-> FALSE, train_dataset |-> <<>>, val_dataset |-> <<>>]

SplitIdle ==
    /\ dataframe = <<>>
    /\ datamodule = NoModule
    /\ main_fold = 0

TileIdle ==
    /\ root_dir = "landsat_tiles"
    /\ files = <<>>
    /\ workers = <<>>
    /\ first_result = <<>>

\* No CrashHandler constructed yet.
NoHandler == [installed |-> FALSE, ckpt_dir_path |-> <<>>, signals |-> 0]

CrashIdle ==
    /\ trainer = <<>>
    /\ crash = NoHandler
    /\ frames = <<>>
    /\ events = <<>>
    /\ ckpt_files = <<>>
    /\ process = <<>>

MetricIdle ==
    /\ metrics_arg = <<>>
    /\ metrics = <<>>
    /\ metric_pc = "idle"
    /\ metric_i = 0
    /\ metric_out = <<>>

CsvIdle ==
    /\ csv_files = <<>>
    /\ csv_call = <<>>
    /\ reprojected = {}

----------------------------------------------------------------------------
(* The observation table.  A row carries the columns the code reads:       *)
(* country, year, cluster (the tile key), wealthpooled (the label), fold.  *)

\* The fold column of row i of a table laid out with the given stride and
\* offset: stride 1 spreads the folds uniformly, stride 0 puts every row in
\* one fold.
FoldOf(i, stride, off) == ((i * stride + off) % NumFolds) + 1

Row(i, stride, off) ==
    [country |-> "angola", year |-> 2013, cluster |-> i,
     wealthpooled |-> i % 2, fold |-> FoldOf(i, stride, off)]

\* The tables read_csv can hand to the data module: 0..MaxRecords rows.
Tables ==
    {[i \in 1..n |-> Row(i, stride, off)] :
        n \in 0..MaxRecords, stride \in {0, 1}, off \in 0..(NumFolds - 1)}

\* A float64 is m * 2^exp with the 53-bit mantissa m = hi * 2^26 + lo kept
\* in two limbs; `lit` is the literal of the configuration it was parsed from.
Double(lit, hi, lo, exp) == [lit |-> lit, hi |-> hi, lo |-> lo, exp |-> exp]

\* The validation fractions of the configuration, floats of (0,1): the
\* default 0.2 and others.
ValSplits ==
    {Double("0.2", 107374182, 26843546, -55),
     Double("0.25", 67108864, 0, -54),
     Double("0.3333333333333333", 89478485, 22369621, -54),
     Double("0.5", 67108864, 0, -53),
     Double("0.6", 80530636, 53687091, -53),
     Double("0.9", 120795955, 13421773, -53)}

\* The `fold` keyword argument: main() passes fold + 1, the other entry
\* points (calcul_mean_std, cnn_on_ms_porverty.main) pass none.
FoldKwarg(k) == [key \in {"fold"} |-> k]

----------------------------------------------------------------------------
(* PovertyDataModule.                                                      *)

\* len(full_dataset): MSDataset.__len__ is len(self.dataframe).
DatasetLen(df) == Len(df)

\* x shifted right by k bits.
Shr(x, k) == IF k > 30 THEN 0 ELSE x \div (2 ^ k)

\* The exact product n * m of a small integer and a mantissa, in limbs.
ExactProduct(n, f) ==
    [hi |-> n * f.hi + ((n * f.lo) \div (2 ^ 26)), lo |-> (n * f.lo) % (2 ^ 26)]

\* The bits the exact product has beyond a 53-bit mantissa.
ExtraBits(prod) ==
    CHOOSE k \in 0..3 : prod.hi < 2 ^ (27 + k) /\ (k = 0 \/ prod.hi >= 2 ^ (26 + k))

\* len(full_dataset) * self.val_split: the int becomes a float and the
\* product is rounded to the nearest float64, ties to even.
MulIntDouble(n, f) ==
    LET prod == ExactProduct(n, f)
        s == ExtraBits(prod)
        rem == prod.lo % (2 ^ s)
        qhi == prod.hi \div (2 ^ s)
        qlo == (prod.lo \div (2 ^ s)) + (prod.hi % (2 ^ s)) * (2 ^ (26 - s))
        up == s > 0 /\ (2 * rem > 2 ^ s \/ (2 * rem = 2 ^ s /\ qlo % 2 = 1))
        carry == up /\ qlo + 1 = 2 ^ 26
    IN  [lit |-> "product",
         hi |-> IF carry THEN qhi + 1 ELSE qhi,
         lo |-> IF carry THEN 0 ELSE IF up THEN qlo + 1 ELSE qlo,
         exp |-> f.exp + s]

\* int(x) of a non-negative float64 below 2^27: the integer part.
IntOfDouble(x) == Shr(x.hi, (0 - x.exp) - 26)

\* A wrong size computation: the fraction applied to the training side.
ValSizeSwapped(n, f) == n - IntOfDouble(MulIntDouble(n, f))

\* val_size = int(len(full_dataset) * self.val_split)
ValSize(n, f) == IntOfDouble(MulIntDouble(n, f))

\* train_size = len(full_dataset) - val_size
TrainSize(n, f) == n - ValSize(n, f)

\* torch.utils.data.random_split(dataset, [train_size, val_size]): a random
\* permutation of the indices 1..n cut into consecutive slices of the lengths.
RandomSplits(n, train_size) ==
    {<<[i \in 1..train_size |-> perm[i]],
       [i \in 1..(n - train_size) |-> perm[train_size + i]]>> :
        perm \in Permutations(1..n)}

\* PovertyDataModule.__init__(val_split=..., **kwargs): reads the table, keeps
\* val_split; `fold` arrives in **kwargs and is stored nowhere.
Construct(f, kw) ==
    /\ datamodule' = [NoModule EXCEPT !.built = TRUE, !.val_split = f,
                                      !.kwargs = kw]
    /\ UNCHANGED dataframe

\* PovertyDataModule.setup(stage): the random split of the full dataset.
SetupResult(dm, df) ==
    {[dm EXCEPT !.is_setup = TRUE, !.train_dataset = s[1], !.val_dataset = s[2]] :
        s \in RandomSplits(DatasetLen(df),
                           TrainSize(DatasetLen(df), dm.val_split))}

Setup ==
    /\ datamodule.built
    /\ datamodule' \in SetupResult(datamodule, dataframe)
    /\ UNCHANGED <<dataframe, main_fold>>
    /\ UNCHANGED <<tile_vars, crash_vars, metric_vars, csv_vars>>

\* main(): one iteration of `for fold in range(5)` builds the data module of
\* fold + 1; trainer.fit / validate / test then call setup().
MainNextFold ==
    /\ main_fold < NumFolds
    /\ main_fold' = main_fold + 1
    /\ \E f \in ValSplits : Construct(f, FoldKwarg(main_fold + 1))
    /\ UNCHANGED <<tile_vars, crash_vars, metric_vars, csv_vars>>

\* calcul_mean_std() and cnn_on_ms_porverty.main(): a data module without fold.
ConstructNoFold ==
    /\ main_fold = 0
    /\ ~datamodule.built
    /\ \E f \in ValSplits : Construct(f, NoKwargs)
    /\ UNCHANGED main_fold
    /\ UNCHANGED <<tile_vars, crash_vars, metric_vars, csv_vars>>

----------------------------------------------------------------------------
(* Tile files and MSDataset.__getitem__.                                   *)
(* A band is modelled by one representative pixel: the code assigns whole  *)
(* band slices and converts element-wise, so every pixel of a band is      *)
(* treated alike.                                                          *)

\* Largest number of rows of the table the workers index.
MaxTiles == 2

\* Number of band slots of the buffer: np.empty([7, 255, 255]).
NumSlots == 7

\* The DataLoader workers calling __getitem__ in parallel.
Workers == {"w1", "w2"}

\* What a float64 pixel can hold: NaN, +inf, or a finite number.
PixelSeq == <<"nan", "inf", "0.0", "1.0">>
Pixels == Range(PixelSeq)

\* The tile names: os.path.join(root_dir, str(country) + "_" + str(year),
\* str(cluster) + ".tif")
TileName(root, row) == <<root, <<row.country, row.year>>, row.cluster>>

\* The tile names of the rows of a table.
TileNames(root, df) == {TileName(root, df[i]) : i \in DOMAIN df}

\* The pixel band b of the file of that name holds (each tile has its own data,
\* with NaN and inf in some bands).
BandData(name, b) == PixelSeq[((name[3] + b) % Len(PixelSeq)) + 1]

\* No file under the name.
Absent == [exists |-> FALSE, count |-> 0]

\* A tile file and its band count (src.count): one band short, the expected
\* eight, one band more.
TileFiles == {[exists |-> TRUE, count |-> c] : c \in {7, 8, 9}}

\* The tables the workers index: 1..MaxTiles rows.
TileTables == {[i \in 1..n |-> Row(i, 1, 0)] : n \in 1..MaxTiles}

Uninit == "uninit"

\* tile = np.empty([7, 255, 255]): allocated, nothing written.
EmptyTile == [s \in 1..NumSlots |-> Uninit]

\* src.indexes[0:-1] of a file with `count` bands: 1 .. count-1.
BandsToRead(file) == 1..(file.count - 1)

\* The loop `for band in src.indexes[0:-1]: tile[band-1,:,:] = src.read(band)`
\* from band b on: the buffer when the loop ends, or "IndexError" when band-1
\* is past the last slot.
RECURSIVE ReadBands(_, _, _, _)
ReadBands(name, file, tile, b) ==
    IF b \notin BandsToRead(file) THEN [raised |-> "none", tile |-> tile]
    ELSE IF b > NumSlots THEN [raised |-> "IndexError", tile |-> tile]
    ELSE ReadBands(name, file, [tile EXCEPT ![b] = BandData(name, b)], b + 1)

\* np.nan_to_num on one element: NaN -> 0.0, +inf -> the largest float64.
NanToNum(x) == IF x = "nan" THEN "0.0" ELSE IF x = "inf" THEN "max64" ELSE x

\* torch.tensor(tile, dtype=torch.float32) on one element: the largest
\* float64 overflows float32 to +inf, 0.0 and 1.0 are exact.
ToFloat32(x) == IF x = "max64" THEN "inf" ELSE x

\* The slots of a buffer nothing was written to.
Unwritten(tile) == {s \in 1..NumSlots : tile[s] = Uninit}

\* The tensors a buffer can turn into: a written slot is converted, a slot
\* never written holds whatever np.empty left there.
ReturnedTiles(tile) ==
    {[s \in 1..NumSlots |->
        ToFloat32(NanToNum(IF s \in Unwritten(tile) THEN g[s] ELSE tile[s]))] :
        g \in [Unwritten(tile) -> Pixels]}

\* What a call hands back: the (tile, label) pair, or the exception it raised.
Ok(tile, value) == [kind |-> "ok", tile |-> tile, value |-> value]
Raised(e) == [kind |-> "raise", error |-> e]
NoResult == [kind |-> "none", error |-> "none"]

IdleWorker ==
    [pc |-> "idle", idx |-> 0, value |-> 0, tile_name |-> <<>>,
     tile |-> EmptyTile, result |-> NoResult]

\* Records the first result returned for an index.
Remember(idx, res) ==
    first_result' = IF first_result[idx] = NoResult
                    THEN [first_result EXCEPT ![idx] = res]
                    ELSE first_result

\* __getitem__(idx), lines 128-137: the row, the label, the tile name and
\* the empty buffer.  Indices are 0-based in the code, 1-based here.
GetItemCall(w, idx) ==
    /\ workers[w].pc \in {"idle", "done"}
    /\ idx \in DOMAIN dataframe
    /\ workers' = [workers EXCEPT ![w] =
           [IdleWorker EXCEPT !.pc = "open", !.idx = idx,
                              !.value = dataframe[idx].wealthpooled,
                              !.tile_name = TileName(root_dir, dataframe[idx])]]
    /\ UNCHANGED <<dataframe, root_dir, files, first_result>>

\* A call that finds no file and hands back a zero-filled tile instead.
OpenMissingZeroFill(w) ==
    /\ workers[w].pc = "open"
    /\ ~files[workers[w].tile_name].exists
    /\ workers' = [workers EXCEPT ![w].pc = "done",
                       ![w].result = Ok([s \in 1..NumSlots |-> "0.0"], workers[w].value)]

\* rasterio.open(tile_name) on a missing file raises RasterioIOError, which
\* nothing in __getitem__ catches.
OpenMissing(w) ==
    /\ workers[w].pc = "open"
    /\ ~files[workers[w].tile_name].exists
    /\ workers' = [workers EXCEPT ![w].pc = "done",
                                  ![w].result = Raised("RasterioIOError")]

GetItemOpenMissing(w) ==
    /\ OpenMissing(w)
    /\ Remember(workers[w].idx, workers'[w].result)
    /\ UNCHANGED <<dataframe, root_dir, files>>

\* `with rasterio.open(tile_name) as src:` on an existing file whose band
\* loop runs to its end: the buffer holds the bands read.
GetItemRead(w) ==
    LET me == workers[w]
        file == files[me.tile_name]
        read == ReadBands(me.tile_name, file, me.tile, 1)
    IN  /\ me.pc = "open"
        /\ file.exists
        /\ read.raised = "none"
        /\ workers' = [workers EXCEPT ![w].pc = "loaded", ![w].tile = read.tile]
        /\ UNCHANGED <<dataframe, root_dir, files, first_result>>

\* The same on a file whose loop reaches band-1 = 7: IndexError, uncaught.
GetItemReadOutOfRange(w) ==
    LET me == workers[w]
        file == files[me.tile_name]
        read == ReadBands(me.tile_name, file, me.tile, 1)
    IN  /\ me.pc = "open"
        /\ file.exists
        /\ read.raised # "none"
        /\ workers' = [workers EXCEPT ![w].pc = "done", ![w].tile = read.tile,
                                      ![w].result = Raised(read.raised)]
        /\ Remember(me.idx, workers'[w].result)
        /\ UNCHANGED <<dataframe, root_dir, files>>

\* tile = np.nan_to_num(tile); return the float32 tensors.
GetItemReturn(w) ==
    LET me == workers[w]
    IN  /\ me.pc = "loaded"
        /\ \E t \in ReturnedTiles(me.tile) :
              workers' = [workers EXCEPT ![w].pc = "done",
                                         ![w].result = Ok(t, me.value)]
        /\ Remember(me.idx, workers'[w].result)
        /\ UNCHANGED <<dataframe, root_dir, files>>

TileInit ==
    /\ dataframe \in TileTables
    /\ root_dir = "landsat_tiles"
    /\ files \in [TileNames(root_dir, dataframe) -> TileFiles \cup {Absent}]
    /\ workers = [w \in Workers |-> IdleWorker]
    /\ first_result = [i \in DOMAIN dataframe |-> NoResult]
    /\ datamodule = NoModule
    /\ main_fold = 0
    /\ CrashIdle
    /\ MetricIdle
    /\ CsvIdle

TileNext ==
    \/ \E w \in Workers, idx \in 1..MaxTiles : GetItemCall(w, idx) /\ UNCHANGED <<datamodule, main_fold, crash_vars, metric_vars, csv_vars>>
    \/ \E w \in Workers : GetItemOpenMissing(w) /\ UNCHANGED <<datamodule, main_fold, crash_vars, metric_vars, csv_vars>>
    \/ \E w \in Workers : GetItemRead(w) /\ UNCHANGED <<datamodule, main_fold, crash_vars, metric_vars, csv_vars>>
    \/ \E w \in Workers : GetItemReadOutOfRange(w) /\ UNCHANGED <<datamodule, main_fold, crash_vars, metric_vars, csv_vars>>
    \/ \E w \in Workers : GetItemReturn(w) /\ UNCHANGED <<datamodule, main_fold, crash_vars, metric_vars, csv_vars>>

SpecTile == TileInit /\ [][TileNext]_vars

----------------------------------------------------------------------------
(* CrashHandler.                                                           *)

\* Largest global_step the trainer reaches.
MaxSteps == 3

\* Largest number of SIGINT deliveries.
MaxSignals == 2

\* The log directories of a run (main() logs each fold under its own).
LogDirs == {"outputs/fold_1", "outputs/fold_2"}

\* Path(trainer.logger.log_dir) / "crash_latest_checkpoint.ckpt"
CkptPath(log_dir) == <<log_dir, "crash_latest_checkpoint.ckpt">>

CkptPaths == {CkptPath(d) : d \in LogDirs}

\* No checkpoint file under the path; a file written at a global step.
NoCkpt == [saved |-> FALSE, step |-> 0]
Ckpt(step) == [saved |-> TRUE, step |-> step]

\* A handler that leaves before it saves.
HandlerStepsExitFirst == <<"print_received", "exit", "print_saving", "save">>

\* signal_handler's statements in order, save_checkpoint's inlined:
\*   print("Received signal ...")            signal_handler
\*   print("Saving lastest checkpoint...")   save_checkpoint
\*   self.trainer.save_checkpoint(path)      save_checkpoint
\*   exit(0)                                 signal_handler
HandlerSteps == <<"print_received", "print_saving", "save", "exit">>

\* The statement the innermost handler invocation is at.
Depth == Len(frames)
TopStep == HandlerSteps[frames[Depth]]
Advance == [frames EXCEPT ![Depth] = frames[Depth] + 1]

Running == process.status = "running"

\* CrashHandler.__init__: keeps the trainer, computes the checkpoint path and
\* installs signal_handler for SIGINT.
CrashHandlerInit ==
    /\ Running
    /\ ~crash.installed
    /\ crash' = [installed |-> TRUE,
                 ckpt_dir_path |-> CkptPath(trainer.log_dir),
                 signals |-> 0]
    /\ UNCHANGED <<trainer, frames, events, ckpt_files, process>>

\* The training loop advances while no handler is running on the main thread.
TrainStep ==
    /\ Running
    /\ frames = <<>>
    /\ trainer.global_step < MaxSteps
    /\ trainer' = [trainer EXCEPT !.global_step = trainer.global_step + 1]
    /\ UNCHANGED <<crash, frames, events, ckpt_files, process>>

\* SIGINT is delivered: Python calls signal_handler on the main thread, on top
\* of whatever runs there (a handler invocation included).
DeliverSigint ==
    /\ Running
    /\ crash.installed
    /\ crash.signals < MaxSignals
    /\ crash' = [crash EXCEPT !.signals = crash.signals + 1]
    /\ frames' = Append(frames, 1)
    /\ UNCHANGED <<trainer, events, ckpt_files, process>>

\* print(f"Received signal {sig}. Performing cleanup...") and
\* print("Saving lastest checkpoint...")
HandlerPrint ==
    /\ Running
    /\ frames # <<>>
    /\ TopStep \in {"print_received", "print_saving"}
    /\ events' = Append(events, <<Depth, TopStep>>)
    /\ frames' = Advance
    /\ UNCHANGED <<trainer, crash, ckpt_files, process>>

\* A save whose failure is swallowed: the handler goes on to its next statement.
SaveFailureSwallowed ==
    /\ events' = Append(events, <<Depth, "save_failed">>)
    /\ frames' = Advance
    /\ UNCHANGED <<trainer, crash, ckpt_files, process>>

\* self.trainer.save_checkpoint(path) raises: nothing in save_checkpoint or
\* signal_handler catches it, so it leaves every handler invocation and the
\* interrupted main thread, and the interpreter ends with status 1.
SaveFailurePropagates ==
    /\ events' = Append(events, <<Depth, "save_failed">>)
    /\ frames' = <<>>
    /\ process' = [status |-> "exited", code |-> 1, by |-> "exception"]
    /\ UNCHANGED <<trainer, crash, ckpt_files>>

\* self.trainer.save_checkpoint(self.ckpt_dir_path) writes the checkpoint.
HandlerSaveOk ==
    /\ Running
    /\ frames # <<>>
    /\ TopStep = "save"
    /\ events' = Append(events, <<Depth, "save">>)
    /\ ckpt_files' = [ckpt_files EXCEPT ![crash.ckpt_dir_path] = Ckpt(trainer.global_step)]
    /\ frames' = Advance
    /\ UNCHANGED <<trainer, crash, process>>

\* self.trainer.save_checkpoint(self.ckpt_dir_path) fails.
HandlerSaveFails ==
    /\ Running
    /\ frames # <<>>
    /\ TopStep = "save"
    /\ SaveFailurePropagates

\* exit(0): SystemExit(0) leaves every invocation and ends the process.
HandlerExit ==
    /\ Running
    /\ frames # <<>>
    /\ TopStep = "exit"
    /\ events' = Append(events, <<Depth, "exit">>)
    /\ frames' = <<>>
    /\ process' = [status |-> "exited", code |-> 0, by |-> "exit"]
    /\ UNCHANGED <<trainer, crash, ckpt_files>>

CrashInit ==
    /\ trainer \in {[log_dir |-> d, global_step |-> 0] : d \in LogDirs}
    /\ crash = NoHandler
    /\ frames = <<>>
    /\ events = <<>>
    /\ ckpt_files = [p \in CkptPaths |-> NoCkpt]
    /\ process = [status |-> "running", code |-> 0, by |-> "none"]
    /\ SplitIdle
    /\ TileIdle
    /\ MetricIdle
    /\ CsvIdle

CrashNext ==
    \/ CrashHandlerInit /\ UNCHANGED <<split_vars, tile_vars, metric_vars, csv_vars>>
    \/ TrainStep /\ UNCHANGED <<split_vars, tile_vars, metric_vars, csv_vars>>
    \/ DeliverSigint /\ UNCHANGED <<split_vars, tile_vars, metric_vars, csv_vars>>
    \/ HandlerPrint /\ UNCHANGED <<split_vars, tile_vars, metric_vars, csv_vars>>
    \/ HandlerSaveOk /\ UNCHANGED <<split_vars, tile_vars, metric_vars, csv_vars>>
    \/ HandlerSaveFails /\ UNCHANGED <<split_vars, tile_vars, metric_vars, csv_vars>>
    \/ HandlerExit /\ UNCHANGED <<split_vars, tile_vars, metric_vars, csv_vars>>

SpecCrash == CrashInit /\ [][CrashNext]_vars

----------------------------------------------------------------------------
(* check_metric.                                                           *)

\* Largest number of entries of the `metrics` mapping of the configuration.
MaxMetrics == 2

\* The keys of FMETRICS_CALLABLES.
FMETRICS_CALLABLES == {"binary_accuracy", "multiclass_accuracy", "multilabel_accuracy"}

\* The metric names of a configuration: two registered ones and one that is not.
MetricNames == {"binary_accuracy", "multilabel_accuracy", "r2score"}

\* What eval(v['callable']) does with the strings of a configuration: one
\* names a function, the others raise.
EvalOutcome(c) ==
    CASE c = "Fmetrics.r2_score" -> "resolved"
      [] c = "Fmetrics.no_such_metric" -> "AttributeError"
      [] c = "no_such_name" -> "NameError"
      [] OTHER -> "SyntaxError"

CallableStrings ==
    {"Fmetrics.r2_score", "Fmetrics.no_such_metric", "no_such_name", "r2_score("}

\* The value under a metric name: a mapping with or without a 'callable' key,
\* or something that is no mapping (nothing, a number, a string).
NoCallable == "<no callable key>"
MetricValues ==
    {[type |-> "dict", callable |-> c] : c \in CallableStrings \cup {NoCallable}}
    \cup {[type |-> t, callable |-> NoCallable] : t \in {"none", "int", "str"}}

Entry(k, v) == [k |-> k, v |-> v]

\* The mappings of up to MaxMetrics entries, keys distinct, in file order.
RECURSIVE EntrySeqs(_)
EntrySeqs(n) ==
    IF n = 0 THEN {<<>>}
    ELSE EntrySeqs(n - 1) \cup
         {Append(es, Entry(k, v)) :
             es \in {e \in EntrySeqs(n - 1) : Len(e) = n - 1},
             k \in MetricNames, v \in MetricValues}

DistinctKeys(es) == \A i, j \in DOMAIN es : i # j => es[i].k # es[j].k

\* The `metrics` arguments: a DictConfig, a ListConfig, or a value that is no
\* OmegaConf container at all.
MetricArgs ==
    {[kind |-> "DictConfig", items |-> es] :
        es \in {e \in EntrySeqs(MaxMetrics) : DistinctKeys(e)}}
    \cup {[kind |-> "ListConfig", items |-> <<>>], [kind |-> "other", items |-> <<>>]}

NoOutput == [printed |-> <<>>, kind |-> "none", is_none |-> FALSE, error |-> "none"]

\* `return metrics` with the filled container, `return metrics` after an
\* except branch set it to None, and an exception leaving the function.
Returned(out) == [out EXCEPT !.kind = "return"]
ReturnedNone(out, warning) ==
    [out EXCEPT !.kind = "return", !.is_none = TRUE,
                !.printed = Append(out.printed, warning)]
Raises(out, e) == [out EXCEPT !.kind = "raise", !.error = e]

\* The except clauses of check_metric: ValueError and KeyError are handled,
\* each with its warning; nothing else is.
Handled(e) ==
    CASE e = "ValueError" -> "dict-like warning"
      [] e = "KeyError" -> "FMETRICS_CALLABLES warning"
      [] OTHER -> "unhandled"

\* An exception raised inside the try block: handled, the function prints the
\* warning and returns None; unhandled, it leaves the function.
Except(out, e) ==
    IF Handled(e) = "unhandled" THEN Raises(out, e)
    ELSE ReturnedNone(out, Handled(e))

\* One pass of the loop body on the entry (k, v):
\*   if 'callable' in v: metrics[k]['callable'] = eval(v['callable'])
\*   else:               metrics[k]['callable'] = FMETRICS_CALLABLES[k]
\* gives the exception it raises, or "none" and the callable stored.
ItemOutcome(k, v) ==
    CASE v.type \in {"none", "int"} ->
            [raised |-> "TypeError", callable |-> "none"]
      [] v.type = "str" ->
            IF k \in FMETRICS_CALLABLES
            THEN [raised |-> "TypeError", callable |-> "none"]
            ELSE [raised |-> "KeyError", callable |-> "none"]
      [] v.type = "dict" /\ v.callable # NoCallable ->
            IF EvalOutcome(v.callable) = "resolved"
            THEN [raised |-> "none", callable |-> <<"function", v.callable>>]
            ELSE [raised |-> EvalOutcome(v.callable), callable |-> "none"]
      [] OTHER ->
            IF k \in FMETRICS_CALLABLES
            THEN [raised |-> "none", callable |-> <<"function", k>>]
            ELSE [raised |-> "KeyError", callable |-> "none"]

\* metrics = OmegaConf.to_container(metrics), then metrics.items(): a value
\* that is no container raises ValueError, a ListConfig becomes a list, which
\* has no items(); a DictConfig becomes the dict the loop runs over.
CheckMetricCall ==
    /\ metric_pc = "start"
    /\ CASE metrics_arg.kind = "other" ->
                /\ metric_out' = Except(metric_out, "ValueError")
                /\ metric_pc' = "done"
                /\ UNCHANGED <<metrics, metric_i>>
         [] metrics_arg.kind = "ListConfig" ->
                /\ metric_out' = Except(metric_out, "AttributeError")
                /\ metric_pc' = "done"
                /\ UNCHANGED <<metrics, metric_i>>
         [] OTHER ->
                /\ metrics' = metrics_arg.items
                /\ metric_i' = 1
                /\ metric_pc' = "loop"
                /\ UNCHANGED metric_out
    /\ UNCHANGED metrics_arg

\* One iteration of `for k, v in metrics.items()` that stores the callable.
CheckMetricItem ==
    /\ metric_pc = "loop"
    /\ metric_i \in DOMAIN metrics
    /\ LET e == metrics[metric_i]
           o == ItemOutcome(e.k, e.v)
       IN  /\ o.raised = "none"
           /\ metrics' = [metrics EXCEPT ![metric_i].v.callable = o.callable]
           /\ metric_i' = metric_i + 1
    /\ UNCHANGED <<metrics_arg, metric_pc, metric_out>>

\* One iteration that raises: the except clauses decide.
CheckMetricItemRaises ==
    /\ metric_pc = "loop"
    /\ metric_i \in DOMAIN metrics
    /\ LET e == metrics[metric_i]
           o == ItemOutcome(e.k, e.v)
       IN  /\ o.raised # "none"
           /\ metric_out' = Except(metric_out, o.raised)
    /\ metric_pc' = "done"
    /\ UNCHANGED <<metrics_arg, metrics, metric_i>>

\* The loop is over: return metrics.
CheckMetricReturn ==
    /\ metric_pc = "loop"
    /\ metric_i \notin DOMAIN metrics
    /\ metric_out' = Returned(metric_out)
    /\ metric_pc' = "done"
    /\ UNCHANGED <<metrics_arg, metrics, metric_i>>

MetricInit ==
    /\ metrics_arg \in MetricArgs
    /\ metrics = <<>>
    /\ metric_pc = "start"
    /\ metric_i = 0
    /\ metric_out = NoOutput
    /\ SplitIdle
    /\ TileIdle
    /\ CrashIdle
    /\ CsvIdle

MetricNext ==
    \/ CheckMetricCall /\ UNCHANGED <<split_vars, tile_vars, crash_vars, csv_vars>>
    \/ CheckMetricItem /\ UNCHANGED <<split_vars, tile_vars, crash_vars, csv_vars>>
    \/ CheckMetricItemRaises /\ UNCHANGED <<split_vars, tile_vars, crash_vars, csv_vars>>
    \/ CheckMetricReturn /\ UNCHANGED <<split_vars, tile_vars, crash_vars, csv_vars>>

SpecMetric == MetricInit /\ [][MetricNext]_vars

----------------------------------------------------------------------------
(* swap_observation_columns_csv.                                           *)

\* Largest number of data rows of a CSV file.
MaxRows == 2

\* The column list of line 122, in its order.
Columns ==
    <<"country", "year", "cluster", "lon", "lat", "households", "wealthpooled",
      "urban_rural", "fold">>

\* The headers of the files the function meets: the list itself, the list with
\* lat before lon, that one with a further column, and one without `fold`.
LatLonHeader ==
    <<"country", "year", "cluster", "lat", "lon", "households", "wealthpooled",
      "urban_rural", "fold">>
Headers ==
    {Columns, LatLonHeader, <<"iso3">> \o LatLonHeader,
     SubSeq(LatLonHeader, 1, Len(LatLonHeader) - 1)}

\* The cell texts of a file: integers, floats (one with a trailing zero), an
\* empty cell, a word.
CellSeq == <<"1", "2.50", "", "AO", "7", "1.0">>

IsNull(t) == t = ""
IsInt(t) == t \in {"1", "7"}
IsFloat(t) == t \in {"2.50", "1.0", "2.5", "7.0"}

\* The text of the cell of row r under the c-th header of a file laid out with
\* pattern k.
CellText(k, r, c) == CellSeq[((k + r * c + c) % Len(CellSeq)) + 1]

NoFile == [exists |-> FALSE, header |-> <<>>, rows |-> <<>>]

CsvFile(header, rows) == [exists |-> TRUE, header |-> header, rows |-> rows]

\* The files the function is given.
InputFiles ==
    {CsvFile(h, [r \in 1..n |-> [c \in 1..Len(h) |-> CellText(k, r, c)]]) :
        h \in Headers, n \in 0..MaxRows, k \in 0..(Len(CellSeq) - 1)}

Paths == {"observation_2013+.csv", "observation_swapped.csv"}

\* The position of a column name in a header (0 when it is not there).
ColumnIndex(header, name) ==
    IF \E i \in DOMAIN header : header[i] = name
    THEN CHOOSE i \in DOMAIN header : header[i] = name
    ELSE 0

\* The texts of column c of a file.
ColumnCells(file, c) == {file.rows[r][c] : r \in DOMAIN file.rows}

\* pd.read_csv's dtype of a column: int64 when every cell is an integer,
\* float64 when the cells are numbers or empty, object otherwise.
DType(cells) ==
    IF cells # {} /\ \A t \in cells : IsInt(t) THEN "int64"
    ELSE IF \A t \in cells : IsInt(t) \/ IsFloat(t) \/ IsNull(t) THEN "float64"
    ELSE "object"

\* repr of the float a numeric text parses to.
FloatRepr(t) ==
    CASE t = "1" -> "1.0"
      [] t = "7" -> "7.0"
      [] t = "2.50" -> "2.5"
      [] OTHER -> t

\* pd.read_csv on one cell of a column of the dtype: the value it holds.
ParseCell(dtype, t) ==
    IF IsNull(t) THEN [kind |-> "nan", repr |-> "nan"]
    ELSE IF dtype = "int64" THEN [kind |-> "int", repr |-> t]
    ELSE IF dtype = "float64" THEN [kind |-> "float", repr |-> FloatRepr(t)]
    ELSE [kind |-> "str", repr |-> t]

\* df.to_csv on one value: NaN is written as the empty cell.
FormatCell(v) == IF v.kind = "nan" THEN "" ELSE v.repr

\* df = pd.read_csv(csv_path): the columns by name, each parsed under its dtype.
ReadCsv(file) ==
    [columns |-> file.header,
     data |-> [r \in DOMAIN file.rows |->
                 [c \in DOMAIN file.header |->
                     ParseCell(DType(ColumnCells(file, c)), file.rows[r][c])]]]

\* df[[...]]: the listed columns, in the listed order.
SelectColumns(df, names) ==
    [columns |-> names,
     data |-> [r \in DOMAIN df.data |->
                 [c \in DOMAIN names |-> df.data[r][ColumnIndex(df.columns, names[c])]]]]

\* df.to_csv(output) without index=False: the row index leads every row.
ToCsvWithIndex(df) ==
    CsvFile(<<"">> \o df.columns,
            [r \in DOMAIN df.data |->
                <<FormatCell([kind |-> "int", repr |-> "1"])>> \o
                [c \in DOMAIN df.columns |-> FormatCell(df.data[r][c])]])

\* df.to_csv(output, index=False)
ToCsv(df) ==
    CsvFile(df.columns,
            [r \in DOMAIN df.data |->
                [c \in DOMAIN df.columns |-> FormatCell(df.data[r][c])]])

\* The file the function writes for the file it read.
Reproject(file) == ToCsv(SelectColumns(ReadCsv(file), Columns))

HasColumns(file) == \A i \in DOMAIN Columns : ColumnIndex(file.header, Columns[i]) # 0

Call(csv_path, output, outcome) ==
    [csv_path |-> csv_path, output |-> output, outcome |-> outcome,
     input |-> csv_files[csv_path], input_reprojected |-> csv_path \in reprojected]

\* swap_observation_columns_csv(csv_path, output) on a readable file with the
\* columns: read, select, write.
SwapObservationColumns(csv_path, output) ==
    /\ csv_files[csv_path].exists
    /\ HasColumns(csv_files[csv_path])
    /\ csv_files' = [csv_files EXCEPT ![output] = Reproject(csv_files[csv_path])]
    /\ reprojected' = reprojected \cup {output}
    /\ csv_call' = Call(csv_path, output, "ok")

\* The same on a file that lacks a listed column: df[[...]] raises KeyError
\* before anything is written.
SwapMissingColumn(csv_path, output) ==
    /\ csv_files[csv_path].exists
    /\ ~HasColumns(csv_files[csv_path])
    /\ csv_call' = Call(csv_path, output, "KeyError")
    /\ UNCHANGED <<csv_files, reprojected>>

\* The same on a path without a file: pd.read_csv raises FileNotFoundError.
SwapMissingFile(csv_path, output) ==
    /\ ~csv_files[csv_path].exists
    /\ csv_call' = Call(csv_path, output, "FileNotFoundError")
    /\ UNCHANGED <<csv_files, reprojected>>

NoCall ==
    [csv_path |-> "", output |-> "", outcome |-> "none", input |-> NoFile,
     input_reprojected |-> FALSE]

CsvInit ==
    /\ \E f \in InputFiles :
          csv_files = [p \in Paths |-> IF p = "observation_2013+.csv" THEN f ELSE NoFile]
    /\ csv_call = NoCall
    /\ reprojected = {}
    /\ SplitIdle
    /\ TileIdle
    /\ CrashIdle
    /\ MetricIdle

CsvNext ==
    \/ \E i, o \in Paths : SwapObservationColumns(i, o) /\ UNCHANGED <<split_vars, tile_vars, crash_vars, metric_vars>>
    \/ \E i, o \in Paths : SwapMissingColumn(i, o) /\ UNCHANGED <<split_vars, tile_vars, crash_vars, metric_vars>>
    \/ \E i, o \in Paths : SwapMissingFile(i, o) /\ UNCHANGED <<split_vars, tile_vars, crash_vars, metric_vars>>

SpecCsv == CsvInit /\ [][CsvNext]_vars

----------------------------------------------------------------------------
SplitInit ==
    /\ dataframe \in Tables
    /\ datamodule = NoModule
    /\ main_fold = 0
    /\ TileIdle
    /\ CrashIdle
    /\ MetricIdle
    /\ CsvIdle

SplitNext == MainNextFold \/ ConstructNoFold \/ Setup

SpecSplit == SplitInit /\ [][SplitNext]_vars

----------------------------------------------------------------------------
(* Claims about the split (checked under SpecSplit).                       *)

TrainIdx == Range(datamodule.train_dataset)
ValIdx == Range(datamodule.val_dataset)

\* The two subsets hold every row of the table exactly once.
IsPartition ==
    /\ NoDuplicates(datamodule.train_dataset)
    /\ NoDuplicates(datamodule.val_dataset)
    /\ TrainIdx \cap ValIdx = {}
    /\ TrainIdx \cup ValIdx = DOMAIN dataframe

\* C1: after a data module is built with fold=k and set up, every validation
\* row has fold = k, every training row has fold # k, and the two subsets hold
\* every row exactly once.
C1_FoldColumnSplit ==
    (datamodule.is_setup /\ "fold" \in DOMAIN datamodule.kwargs) =>
        /\ \A i \in ValIdx : dataframe[i].fold = datamodule.kwargs["fold"]
        /\ \A i \in TrainIdx : dataframe[i].fold # datamodule.kwargs["fold"]
        /\ IsPartition

\* floor(N * f) of the exact product of N and the float f: the integer part
\* of the unrounded product.
FloorOfProduct(n, f) == Shr(ExactProduct(n, f).hi, (0 - f.exp) - 26)

\* C2 as stated: after setup() the validation subset has exactly floor(N*f)
\* indices, the training subset the other N - floor(N*f), and the two index
\* sets are disjoint and cover all N.
C2_RandomSplitSizes ==
    datamodule.is_setup =>
        LET n == Len(dataframe)
            v == Len(datamodule.val_dataset)
        IN  /\ v = FloorOfProduct(n, datamodule.val_split)
            /\ Len(datamodule.train_dataset) = n - v
            /\ IsPartition

\* C2 as amended: the validation subset has int(N*f) indices, N*f being the
\* float64 product: floor(N*f), or one more when the product rounds up to
\* an integer; the training subset has the other N - int(N*f), and the two
\* index sets are disjoint and cover all N.
C2_RandomSplitSizesRounded ==
    datamodule.is_setup =>
        LET n == Len(dataframe)
            f == datamodule.val_split
            v == Len(datamodule.val_dataset)
            rounded == MulIntDouble(n, f)
        IN  /\ v \in {FloorOfProduct(n, f), FloorOfProduct(n, f) + 1}
            /\ v = FloorOfProduct(1, rounded)
            /\ v = FloorOfProduct(n, f) + 1 =>
                   rounded.lo = 0 /\ rounded.hi = v * 2 ^ ((0 - rounded.exp) - 26)
            /\ Len(datamodule.train_dataset) = n - v
            /\ IsPartition

\* C2 happens: three rows split with val_split = 0.3333333333333333, whose
\* product with 3 rounds up to 1.0.
C2_Witness ==
    /\ datamodule.is_setup
    /\ Len(dataframe) = 3
    /\ datamodule.val_split.lit = "0.3333333333333333"
    /\ Len(datamodule.val_dataset) = 1
    /\ Len(datamodule.train_dataset) = 2

----------------------------------------------------------------------------
(* Claims about MSDataset.__getitem__ (checked under SpecTile).            *)

Done(w) == workers[w].pc = "done"
FileOf(w) == files[workers[w].tile_name]

\* The tensor the claim describes: every slot the file's band of the same
\* position, NaN replaced by 0.0.
ExpectedTile(name) ==
    [s \in 1..NumSlots |-> IF BandData(name, s) = "nan" THEN "0.0" ELSE BandData(name, s)]

\* C3: a call on a row whose tile file exists returns a tile whose 7 slots
\* hold the file's bands of the same position with NaN replaced by 0.0; no
\* element is NaN or left over from the unwritten buffer.
C3_TileFromFileBands ==
    \A w \in Workers :
        (Done(w) /\ FileOf(w).exists) =>
            /\ workers[w].result.kind = "ok"
            /\ workers[w].result.tile = ExpectedTile(workers[w].tile_name)
            /\ \A s \in 1..NumSlots : workers[w].result.tile[s] # "nan"

\* C4: a call on a tile file with fewer than the 8 bands needed to fill the 7
\* slots fails with an error; it never returns a tile.
C4_ShortFileRaises ==
    \A w \in Workers :
        (Done(w) /\ FileOf(w).exists /\ FileOf(w).count < NumSlots + 1) =>
            workers[w].result.kind = "raise"

\* C5: a call on a row whose tile file is absent fails with the lookup error
\* of the open; it returns no tile, zero-filled or other.
C5_MissingFileRaises ==
    \A w \in Workers :
        (Done(w) /\ ~FileOf(w).exists) =>
            /\ workers[w].result.kind = "raise"
            /\ workers[w].result.error = "RasterioIOError"

\* C5 happens: a worker has finished a call on a row without a tile file while
\* the other row's file exists.
C5_Witness ==
    \E w \in Workers :
        /\ Done(w)
        /\ ~FileOf(w).exists
        /\ \E n \in DOMAIN files : files[n].exists

\* C6: under any interleaving of the workers' calls the shared state stays as
\* constructed, and every call with index i returns what the first call with
\* index i returned.
C6_PureReentrant ==
    /\ root_dir = "landsat_tiles"
    /\ dataframe \in TileTables
    /\ DOMAIN files = TileNames(root_dir, dataframe)
    /\ \A w \in Workers :
          Done(w) => workers[w].result = first_result[workers[w].idx]

----------------------------------------------------------------------------
(* Claims about CrashHandler (checked under SpecCrash).                    *)

\* Every event b of the invocation at depth d comes after an event a of it.
Before(d, a, b) ==
    \A i \in DOMAIN events :
        events[i] = <<d, b>> => \E j \in 1..(i - 1) : events[j] = <<d, a>>

Depths == 1..MaxSignals

Prints == {"print_received", "print_saving"}

\* C7 as stated: the handler triggers the save, then prints, then exits with
\* code 0, and never exits before the save was triggered.
C7_SaveThenPrintThenExit ==
    /\ \A d \in Depths : \A m \in Prints : Before(d, "save", m)
    /\ \A d \in Depths : Before(d, "print_saving", "exit")
    /\ \A d \in Depths : Before(d, "save", "exit")
    /\ process.by = "exit" => process.code = 0

\* C7 as amended: the handler prints "Received signal ..." and "Saving lastest
\* checkpoint...", then triggers the save to <log_dir>/crash_latest_checkpoint.ckpt,
\* and then, the save having returned, exits with code 0; it never exits
\* before the save.
C7_PrintThenSaveThenExit ==
    /\ \A d \in Depths :
          /\ Before(d, "print_received", "print_saving")
          /\ Before(d, "print_saving", "save")
          /\ Before(d, "print_saving", "save_failed")
          /\ Before(d, "save", "exit")
    /\ crash.installed => crash.ckpt_dir_path = CkptPath(trainer.log_dir)
    /\ process.by = "exit" =>
          /\ process.code = 0
          /\ ckpt_files[CkptPath(trainer.log_dir)] # NoCkpt
    /\ \A p \in DOMAIN ckpt_files :
          p # CkptPath(trainer.log_dir) => ckpt_files[p] = NoCkpt

\* C7 happens: an interrupt during training ran the handler to its exit.
C7_Witness ==
    /\ process.status = "exited"
    /\ process.by = "exit"
    /\ trainer.global_step = 2
    /\ ckpt_files[CkptPath(trainer.log_dir)] = Ckpt(2)
    /\ Len(events) = 4

SaveFailed == \E i \in DOMAIN events : events[i][2] = "save_failed"

\* C8 as stated: after a failed save the handler's termination step is still
\* reached, so the process ends by the handler's exit.
C8_ExitAfterFailedSave ==
    (SaveFailed /\ process.status = "exited") =>
        /\ process.by = "exit"
        /\ \E i \in DOMAIN events : events[i][2] = "exit"

\* C8 as amended: a failed save is not caught in the handler; the exception
\* leaves signal_handler, exit(0) is never reached, and the process ends
\* through the uncaught exception with a non-zero status.
C8_FailedSavePropagates ==
    \A i \in DOMAIN events :
        events[i][2] = "save_failed" =>
            /\ i = Len(events)
            /\ frames = <<>>
            /\ process.status = "exited"
            /\ process.by = "exception"
            /\ process.code # 0
            /\ \A j \in DOMAIN events : events[j] # <<events[i][1], "exit">>

\* C8 happens: the save of an interrupt delivered during training failed.
C8_Witness ==
    /\ SaveFailed
    /\ trainer.global_step = 1
    /\ ckpt_files[CkptPath(trainer.log_dir)] = NoCkpt

----------------------------------------------------------------------------
(* Claims about check_metric (checked under SpecMetric).                   *)

\* A malformed metric specification: no dict-like value, a metric name that
\* FMETRICS_CALLABLES lacks (and no 'callable' to replace it), or a 'callable'
\* string that does not resolve.
Malformed(arg) ==
    \/ arg.kind # "DictConfig"
    \/ \E i \in DOMAIN arg.items :
          LET e == arg.items[i]
          IN  \/ e.v.type # "dict"
              \/ e.v.callable = NoCallable /\ e.k \notin FMETRICS_CALLABLES
              \/ e.v.callable # NoCallable /\ EvalOutcome(e.v.callable) # "resolved"

\* C9: on any malformed metric specification check_metric prints a warning
\* and returns None instead of raising.
C9_MalformedReturnsNone ==
    (metric_pc = "done" /\ Malformed(metrics_arg)) =>
        /\ metric_out.kind = "return"
        /\ metric_out.is_none
        /\ metric_out.printed # <<>>

----------------------------------------------------------------------------
(* Claims about swap_observation_columns_csv (checked under SpecCsv).      *)

\* C10: the reprojection is idempotent.  The file a call wrote has exactly the
\* fixed column list in the fixed order and as many rows as the file read;
\* reprojecting it again gives the same file, and a call whose input was
\* itself written by the function (any path, the output's included) writes a
\* file identical to its input.
C10_ReprojectIdempotent ==
    csv_call.outcome = "ok" =>
        LET out == csv_files[csv_call.output]
        IN  /\ out.exists
            /\ out.header = Columns
            /\ Len(out.rows) = Len(csv_call.input.rows)
            /\ Reproject(out) = out
            /\ csv_call.input_reprojected => out = csv_call.input

\* C10 happens: the function ran in place on a file it had written, which
\* the first run had changed (cells renormalised, columns reordered).
C10_Witness ==
    /\ csv_call.outcome = "ok"
    /\ csv_call.input_reprojected
    /\ csv_call.csv_path = csv_call.output
    /\ Len(csv_call.input.rows) = MaxRows
    /\ \E r \in DOMAIN csv_call.input.rows :
          \E c \in DOMAIN Columns : csv_call.input.rows[r][c] = "2.5"

====
